---- MODULE Spec2Model ----
(***************************************************************************)
(* Model of src/api/consumer/lib/import.js: the package-dependency drift   *)
(* check that follows an import (getSemverType, compatibleWith,            *)
(* warnForPackageDependencies), with the semver calls it makes evaluated   *)
(* on the specifier strings themselves.                                    *)
(***************************************************************************)
EXTENDS Integers, Sequences, FiniteSets, TLC

\* ------------------------------------------------------------------------
\* JavaScript values
\* ------------------------------------------------------------------------

\* JS `undefined` (a missing property, a missing character): a string that
\* is no specifier, so that it compares with strings.
undefined == "(undefined)"

\* JS `null`, the "neither" answer of getSemverType.
null == "(null)"

\* parseInt's NaN; it is never === to anything, itself included.
NaN == 0 - 1

\* JS truthiness of a property value that is a string or undefined.
Truthy(v) == v # undefined /\ v # ""

\* s[i] of JS, 0-based: the one-character string at index i, or undefined.
CharAt(s, i) == IF i >= 0 /\ i < Len(s) THEN SubSeq(s, i + 1, i + 1) ELSE undefined

\* s.startsWith(p)
startsWith(s, p) == Len(s) >= Len(p) /\ SubSeq(s, 1, Len(p)) = p

Digits == <<"0", "1", "2", "3", "4", "5", "6", "7", "8", "9">>

IsDigit(c) == \E d \in 1..10 : Digits[d] = c

DigitVal(c) == (CHOOSE d \in 1..10 : Digits[d] = c) - 1

\* parseInt(c, 10) of a one-character string or undefined.
parseInt(c) == IF IsDigit(c) THEN DigitVal(c) ELSE NaN

\* a === b on parseInt results.
StrictEq(a, b) == a # NaN /\ b # NaN /\ a = b

\* b[depName] of a plain object b: its value, or undefined when absent.
Get(b, k) == IF k \in DOMAIN b THEN b[k] ELSE undefined

\* R.merge(l, r): the keys of both, r's value winning.
merge(l, r) == [k \in (DOMAIN l) \cup (DOMAIN r) |-> IF k \in DOMAIN r THEN r[k] ELSE l[k]]

EmptyObj == [k \in {} |-> ""]

\* ------------------------------------------------------------------------
\* semver, on strings (numeric versions; pre-release and build tags are
\* outside the specifiers drawn below)
\* ------------------------------------------------------------------------

\* 1-based index of the first occurrence of character c in s, 0 if none.
FirstIndex(s, c) ==
  IF \E i \in 1..Len(s) : SubSeq(s, i, i) = c
  THEN CHOOSE i \in 1..Len(s) :
         /\ SubSeq(s, i, i) = c
         /\ \A j \in 1..(i - 1) : SubSeq(s, j, j) # c
  ELSE 0

RECURSIVE SplitOn(_, _)
\* s.split(c) for a one-character separator.
SplitOn(s, c) ==
  LET i == FirstIndex(s, c)
  IN IF i = 0 THEN <<s>>
     ELSE <<SubSeq(s, 1, i - 1)>> \o SplitOn(SubSeq(s, i + 1, Len(s)), c)

RECURSIVE SplitAlt(_)
\* range.split('||')
SplitAlt(s) ==
  IF \E i \in 1..(Len(s) - 1) : SubSeq(s, i, i + 1) = "||"
  THEN LET i == CHOOSE k \in 1..(Len(s) - 1) :
                  /\ SubSeq(s, k, k + 1) = "||"
                  /\ \A j \in 1..(k - 1) : SubSeq(s, j, j + 1) # "||"
       IN <<SubSeq(s, 1, i - 1)>> \o SplitAlt(SubSeq(s, i + 2, Len(s)))
  ELSE <<s>>

RECURSIVE TrimLeft(_)
TrimLeft(s) == IF Len(s) > 0 /\ SubSeq(s, 1, 1) = " " THEN TrimLeft(SubSeq(s, 2, Len(s))) ELSE s

RECURSIVE TrimRight(_)
TrimRight(s) ==
  IF Len(s) > 0 /\ SubSeq(s, Len(s), Len(s)) = " "
  THEN TrimRight(SubSeq(s, 1, Len(s) - 1)) ELSE s

\* s.trim()
Trim(s) == TrimRight(TrimLeft(s))

\* NUMERICIDENTIFIER: 0|[1-9]\d*
IsNumericId(s) ==
  /\ Len(s) > 0
  /\ \A i \in 1..Len(s) : IsDigit(SubSeq(s, i, i))
  /\ (Len(s) = 1 \/ SubSeq(s, 1, 1) # "0")

RECURSIVE NumVal(_)
NumVal(s) ==
  IF Len(s) = 0 THEN 0
  ELSE NumVal(SubSeq(s, 1, Len(s) - 1)) * 10 + DigitVal(SubSeq(s, Len(s), Len(s)))

\* "No version": the parse failed.
NoVersion == <<>>

\* The optional leading v of a version.
StripV(t) == IF startsWith(t, "v") THEN SubSeq(t, 2, Len(t)) ELSE t

\* MAJOR.MINOR.PATCH, already split at the dots, as <<major, minor, patch>>.
VersionOfParts(parts) ==
  IF Len(parts) = 3 /\ \A n \in 1..3 : IsNumericId(parts[n])
  THEN <<NumVal(parts[1]), NumVal(parts[2]), NumVal(parts[3])>>
  ELSE NoVersion

\* new SemVer(s): v?MAJOR.MINOR.PATCH after trimming.
ParseVersion(s) == VersionOfParts(SplitOn(StripV(Trim(s)), "."))

\* The x of an x-range (x, X, * or a missing part).
X == 0 - 1

IsXId(s) == s \in {"x", "X", "*"}

RECURSIVE StripVEq(_)
\* The [v=\s]* that may precede a partial version.
StripVEq(s) ==
  IF Len(s) > 0 /\ SubSeq(s, 1, 1) \in {"v", "=", " "}
  THEN StripVEq(SubSeq(s, 2, Len(s))) ELSE s

PartVal(parts, i) ==
  IF i > Len(parts) \/ IsXId(parts[i]) THEN X ELSE NumVal(parts[i])

\* A partial version, already split at the dots.
PartialOfParts(parts) ==
  IF /\ Len(parts) >= 1 /\ Len(parts) <= 3
     /\ \A n \in 1..Len(parts) : IsNumericId(parts[n]) \/ IsXId(parts[n])
  THEN IF PartVal(parts, 1) = X THEN <<X, X, X>>
       ELSE IF PartVal(parts, 2) = X THEN <<PartVal(parts, 1), X, X>>
       ELSE <<PartVal(parts, 1), PartVal(parts, 2), PartVal(parts, 3)>>
  ELSE NoVersion

\* XRANGEPLAIN: a version whose parts may be x or missing; NoVersion if malformed.
ParsePartial(s) == PartialOfParts(SplitOn(StripVEq(s), "."))

\* compare(a, b) < 0 on <<major, minor, patch>>
VLess(a, b) ==
  \/ a[1] < b[1]
  \/ a[1] = b[1] /\ a[2] < b[2]
  \/ a[1] = b[1] /\ a[2] = b[2] /\ a[3] < b[3]

\* Primitive comparators; ANY matches every version.
Cmp(o, M, m, p) == [op |-> o, v |-> <<M, m, p>>]
ANY == [op |-> "*", v |-> <<0, 0, 0>>]

\* Comparator.test
CmpTest(c, v) ==
  CASE c.op = "*" -> TRUE
    [] c.op = "=" -> v = c.v
    [] c.op = ">=" -> ~VLess(v, c.v)
    [] c.op = ">" -> VLess(c.v, v)
    [] c.op = "<" -> VLess(v, c.v)
    [] c.op = "<=" -> ~VLess(c.v, v)

\* replaceCaret
Caret(pv) ==
  LET M == pv[1]
      m == pv[2]
      p == pv[3]
  IN IF M = X THEN <<ANY>>
     ELSE IF m = X THEN <<Cmp(">=", M, 0, 0), Cmp("<", M + 1, 0, 0)>>
     ELSE IF p = X THEN
       IF M = 0 THEN <<Cmp(">=", M, m, 0), Cmp("<", M, m + 1, 0)>>
       ELSE <<Cmp(">=", M, m, 0), Cmp("<", M + 1, 0, 0)>>
     ELSE IF M = 0 THEN
       IF m = 0 THEN <<Cmp(">=", M, m, p), Cmp("<", M, m, p + 1)>>
       ELSE <<Cmp(">=", M, m, p), Cmp("<", M, m + 1, 0)>>
     ELSE <<Cmp(">=", M, m, p), Cmp("<", M + 1, 0, 0)>>

\* replaceTilde
Tilde(pv) ==
  LET M == pv[1]
      m == pv[2]
      p == pv[3]
  IN IF M = X THEN <<ANY>>
     ELSE IF m = X THEN <<Cmp(">=", M, 0, 0), Cmp("<", M + 1, 0, 0)>>
     ELSE IF p = X THEN <<Cmp(">=", M, m, 0), Cmp("<", M, m + 1, 0)>>
     ELSE <<Cmp(">=", M, m, p), Cmp("<", M, m + 1, 0)>>

\* replaceXRange, then Comparator: gtlt is one of "", "=", ">", ">=", "<", "<=".
XRange(gtlt, pv) ==
  LET M == pv[1]
      m == pv[2]
      p == pv[3]
      g == IF gtlt = "" THEN "=" ELSE gtlt
  IN IF p # X THEN <<Cmp(g, M, m, p)>>
     ELSE IF g = "=" THEN
       IF M = X THEN <<ANY>>
       ELSE IF m = X THEN <<Cmp(">=", M, 0, 0), Cmp("<", M + 1, 0, 0)>>
       ELSE <<Cmp(">=", M, m, 0), Cmp("<", M, m + 1, 0)>>
     ELSE IF M = X THEN
       IF g \in {">", "<"} THEN <<Cmp("<", 0, 0, 0)>> ELSE <<ANY>>
     ELSE IF g = ">" THEN
       IF m = X THEN <<Cmp(">=", M + 1, 0, 0)>> ELSE <<Cmp(">=", M, m + 1, 0)>>
     ELSE IF g = "<=" THEN
       IF m = X THEN <<Cmp("<", M + 1, 0, 0)>> ELSE <<Cmp("<", M, m + 1, 0)>>
     ELSE <<Cmp(g, M, IF m = X THEN 0 ELSE m, 0)>>

\* The operator a comparator token starts with.
TokenOp(tok) ==
  IF startsWith(tok, "^") THEN "^"
  ELSE IF startsWith(tok, "~>") THEN "~>"
  ELSE IF startsWith(tok, "~") THEN "~"
  ELSE IF startsWith(tok, ">=") THEN ">="
  ELSE IF startsWith(tok, "<=") THEN "<="
  ELSE IF startsWith(tok, ">") THEN ">"
  ELSE IF startsWith(tok, "<") THEN "<"
  ELSE ""

\* "The range is malformed": what makes new Range throw.
Malformed == <<[op |-> "!", v |-> <<0, 0, 0>>]>>

\* The primitive comparators of operator o applied to the partial version pv.
ComparatorOf(o, pv) ==
  IF pv = NoVersion THEN Malformed
  ELSE IF o = "^" THEN Caret(pv)
  ELSE IF o \in {"~", "~>"} THEN Tilde(pv)
  ELSE XRange(o, pv)

\* parseComparator + new Comparator of one token.
ParseComparator(tok) ==
  IF tok = "" THEN <<ANY>>
  ELSE ComparatorOf(TokenOp(tok), ParsePartial(SubSeq(tok, Len(TokenOp(tok)) + 1, Len(tok))))

RECURSIVE JoinOps(_)
\* COMPARATORTRIM, TILDETRIM, CARETTRIM: an operator standing alone is joined
\* to the token after it; empty tokens (runs of spaces) disappear.
JoinOps(toks) ==
  IF Len(toks) = 0 THEN <<>>
  ELSE IF toks[1] = "" THEN JoinOps(Tail(toks))
  ELSE IF toks[1] \in {"^", "~", "~>", ">", ">=", "<", "<=", "="} /\ Len(toks) > 1 THEN
    IF Len(toks[2]) = 0 THEN JoinOps(<<toks[1]>> \o Tail(Tail(toks)))
    ELSE <<toks[1] \o toks[2]>> \o JoinOps(Tail(Tail(toks)))
  ELSE <<toks[1]>> \o JoinOps(Tail(toks))

RECURSIVE ConcatAll(_)
ConcatAll(ss) == IF Len(ss) = 0 THEN <<>> ELSE ss[1] \o ConcatAll(Tail(ss))

\* hyphenReplace on the two parsed ends of "A - B".
HyphenOf(from, to) ==
  IF from = NoVersion \/ to = NoVersion THEN Malformed
  ELSE (IF from[1] = X THEN <<>>
        ELSE IF from[2] = X THEN <<Cmp(">=", from[1], 0, 0)>>
        ELSE IF from[3] = X THEN <<Cmp(">=", from[1], from[2], 0)>>
        ELSE <<Cmp(">=", from[1], from[2], from[3])>>)
       \o
       (IF to[1] = X THEN <<>>
        ELSE IF to[2] = X THEN <<Cmp("<", to[1] + 1, 0, 0)>>
        ELSE IF to[3] = X THEN <<Cmp("<", to[1], to[2] + 1, 0)>>
        ELSE <<Cmp("<=", to[1], to[2], to[3])>>)

\* No comparator at all is the comparator that matches everything.
OrAny(cs) == IF Len(cs) = 0 THEN <<ANY>> ELSE cs

\* The comparators (a conjunction) of the tokens of one ||-alternative.
RangeAltOf(toks) ==
  IF Len(toks) = 3 /\ toks[2] = "-"
  THEN OrAny(HyphenOf(ParsePartial(toks[1]), ParsePartial(toks[3])))
  ELSE OrAny(ConcatAll([n \in 1..Len(toks) |-> ParseComparator(toks[n])]))

\* Range.parseRange of one ||-alternative.
ParseRangeAlt(s) == RangeAltOf(JoinOps(SplitOn(Trim(s), " ")))

RangeOfAlts(alts) == [n \in 1..Len(alts) |-> ParseRangeAlt(alts[n])]

\* new Range(s).set: one comparator list per alternative.
ParseRange(s) == RangeOfAlts(SplitAlt(s))

\* No comparator of the set is malformed.
SetOk(set) == \A n \in 1..Len(set) : \A k \in 1..Len(set[n]) : set[n][k].op # "!"

\* new Range(s) does not throw.
RangeOk(s) == SetOk(ParseRange(s))

\* semver.valid(s) is not null
semver_valid(s) == ParseVersion(s) # NoVersion

\* semver.validRange(s) is not null
semver_validRange(s) == RangeOk(s)

\* What a semver call does: returns a boolean, or throws (new SemVer of an
\* invalid version string throws TypeError).
Returns(b) == [threw |-> FALSE, value |-> b]
Throws == [threw |-> TRUE, value |-> FALSE]

\* compare(va, vb) === 0, or the TypeError of new SemVer.
EqOf(va, vb) ==
  IF va = NoVersion \/ vb = NoVersion THEN Throws ELSE Returns(va = vb)

\* semver.eq(a, b)
semver_eq(a, b) == EqOf(ParseVersion(a), ParseVersion(b))

\* Range.test, after new Range: an invalid range is caught and gives false;
\* the version is parsed by Range.test, outside the catch.
TestOf(v, set) ==
  IF ~SetOk(set) THEN Returns(FALSE)
  ELSE IF v = NoVersion THEN Throws
  ELSE Returns(\E n \in 1..Len(set) : \A k \in 1..Len(set[n]) : CmpTest(set[n][k], v))

\* semver.satisfies(version, range)
semver_satisfies(version, range) == TestOf(ParseVersion(version), ParseRange(range))

\* ------------------------------------------------------------------------
\* import.js
\* ------------------------------------------------------------------------

\* Mutation of getSemverType: whatever is not an exact version is taken for a
\* range (the validRange test is missing).
getSemverType_NoRangeCheck(str) == IF semver_valid(str) THEN "V" ELSE "R"

\* Mutation of getSemverType: a falsy specifier is rejected before semver
\* sees it.
getSemverType_EmptyIsInvalid(str) ==
  IF ~Truthy(str) THEN null
  ELSE IF semver_valid(str) THEN "V"
  ELSE IF semver_validRange(str) THEN "R"
  ELSE null

\* Lines 74-78.
getSemverType(str) ==
  IF semver_valid(str) THEN "V"
  ELSE IF semver_validRange(str) THEN "R"
  ELSE null

\* key = R.compose(R.head, R.keys): the first (here the only) key of a.
key(a) == CHOOSE k \in DOMAIN a : TRUE

\* Mutation of caretHeuristic: the two startsWith('^') tests are missing.
caretHeuristic_NoCaretTest(aVersion, bVersion) ==
  StrictEq(parseInt(CharAt(aVersion, 1)), parseInt(CharAt(bVersion, 1)))

\* Mutation of caretHeuristic: the whole major numbers are compared.
caretHeuristic_WholeMajor(aVersion, bVersion) ==
  /\ startsWith(aVersion, "^") /\ startsWith(bVersion, "^")
  /\ IsNumericId(SplitOn(SubSeq(aVersion, 2, Len(aVersion)), ".")[1])
  /\ SplitOn(SubSeq(aVersion, 2, Len(aVersion)), ".")[1]
       = SplitOn(SubSeq(bVersion, 2, Len(bVersion)), ".")[1]

\* Lines 92-96: both begin with '^' and parseInt of the character at index 1
\* is the same number.
caretHeuristic(aVersion, bVersion) ==
  /\ startsWith(aVersion, "^") /\ startsWith(bVersion, "^")
  /\ StrictEq(parseInt(CharAt(aVersion, 1)), parseInt(CharAt(bVersion, 1)))

\* Lines 87-98: no type, then the four pairs of types.
byType(aType, bType, aVersion, bVersion) ==
  IF aType = null \/ bType = null THEN Returns(FALSE)
  ELSE IF aType = "V" /\ bType = "V" THEN semver_eq(aVersion, bVersion)
  ELSE IF aType = "V" /\ bType = "R" THEN semver_satisfies(aVersion, bVersion)
  ELSE IF aType = "R" /\ bType = "V" THEN semver_satisfies(bVersion, aVersion)
  ELSE IF aType = "R" /\ bType = "R" /\ caretHeuristic(aVersion, bVersion) THEN Returns(TRUE)
  ELSE Returns(FALSE)

\* Mutation of compatibleWith: a dependency the source does not have is
\* answered with true.
compatibleWith_FailOpen(a, b) ==
  IF ~Truthy(Get(b, key(a))) THEN Returns(TRUE)
  ELSE byType(getSemverType(a[key(a)]), getSemverType(Get(b, key(a))),
              a[key(a)], Get(b, key(a)))

\* Lines 80-99; depName is key(a), aVersion a[depName], bVersion b[depName].
compatibleWith(a, b) ==
  IF ~Truthy(Get(b, key(a))) THEN Returns(FALSE)
  ELSE byType(getSemverType(a[key(a)]), getSemverType(Get(b, key(a))),
              a[key(a)], Get(b, key(a)))

\* Mutation of getPackageJson: the read is not wrapped in try/catch.
getPackageJson_NoCatch(file) ==
  IF file.readable THEN [threw |-> FALSE, json |-> file.json]
  ELSE [threw |-> TRUE, json |-> [k \in {} |-> EmptyObj]]

\* getPackageJson (the try/catch around fs.readJSONSync): the parsed file, or
\* {} when the read throws.  A file is [readable, json].
getPackageJson(file) ==
  IF file.readable THEN [threw |-> FALSE, json |-> file.json]
  ELSE [threw |-> FALSE, json |-> [k \in {} |-> EmptyObj]]

\* packageJson.dependencies || {}  (and .devDependencies || {})
Section(json, name) == IF name \in DOMAIN json THEN json[name] ELSE EmptyObj

\* R.merge(packageJson.dependencies || {}, packageJson.devDependencies || {})
buildPackageJsonDependencies(json) ==
  merge(Section(json, "dependencies"), Section(json, "devDependencies"))

\* getNameAndVersion = pj => ({ [pj.name]: pj.version }); a missing name is
\* the property key "undefined".
getNameAndVersion(pj) ==
  LET name == Get(pj, "name")
  IN [k \in {IF name = undefined THEN "undefined" ELSE name} |-> Get(pj, "version")]

RECURSIVE mergeAll(_)
\* R.mergeAll(list): later objects win.
mergeAll(objs) ==
  IF Len(objs) = 0 THEN EmptyObj
  ELSE merge(mergeAll(SubSeq(objs, 1, Len(objs) - 1)), objs[Len(objs)])

\* glob.sync(node_modules/*).map(R.compose(getNameAndVersion, getPackageJson))
buildNodeModules(dirs) ==
  mergeAll([n \in 1..Len(dirs) |-> getNameAndVersion(getPackageJson(dirs[n]).json)])

\* !dep.packageDependencies || R.isEmpty(dep.packageDependencies)
hasNoPackageDependencies(dep) ==
  ~dep.hasPackageDependencies \/ Len(dep.packageDependencies) = 0

\* const packageDep = { [packageDepName]: packageDepVersion }
PackageDep(name, version) == [k \in {name} |-> version]

\* Mutation of Buckets: the second test lacks "&& compatibleWithNodeModules".
Buckets_NoSecondTest(compatibleWithPackgeJson, compatibleWithNodeModules) ==
  (IF ~compatibleWithPackgeJson /\ ~compatibleWithNodeModules THEN {"notInBoth"} ELSE {})
  \cup
  (IF ~compatibleWithPackgeJson THEN {"notInPackageJson"} ELSE {})
  \cup
  (IF compatibleWithPackgeJson /\ ~compatibleWithNodeModules THEN {"notInNodeModules"} ELSE {})

\* The three ifs of the forEachObjIndexed callback: the buckets the pair is
\* pushed to.
Buckets(compatibleWithPackgeJson, compatibleWithNodeModules) ==
  (IF ~compatibleWithPackgeJson /\ ~compatibleWithNodeModules THEN {"notInBoth"} ELSE {})
  \cup
  (IF ~compatibleWithPackgeJson /\ compatibleWithNodeModules THEN {"notInPackageJson"} ELSE {})
  \cup
  (IF compatibleWithPackgeJson /\ ~compatibleWithNodeModules THEN {"notInNodeModules"} ELSE {})

\* Mutation of push: Array.prototype.unshift.
push_Unshift(list, x) == <<x>> \o list

\* Array.prototype.push
push(list, x) == Append(list, x)

\* Mutation of AfterSkip: the `return` leaves the whole loop.
AfterSkip_Break(idx, len) == len + 1

\* `return null` inside the dependencies.forEach callback: on to the next
\* component.
AfterSkip(idx, len) == idx + 1

BucketNames == {"notInPackageJson", "notInNodeModules", "notInBoth"}

EmptyWarnings == [b \in BucketNames |-> <<>>]

\* ------------------------------------------------------------------------
\* Inputs
\* ------------------------------------------------------------------------

MaxPart == 1
MaxComponents == 2
MaxNodeModules == 1

Majors == {1, 2, 10, 12}

VersionStr(M, m, p) == ToString(M) \o "." \o ToString(m) \o "." \o ToString(p)

ExactVersions == {VersionStr(M, m, p) : M \in Majors, m \in 0..MaxPart, p \in 0..MaxPart}

OtherSpecifiers ==
  {"", "*", "latest", "1.0.0.0", "^x", "^v1.0.0", "^ 1.0.0", "v1.0.0", "^1",
   ">=1.0.0 <2.0.0", "1.5.0 - 1.9.0", "1.x", "^1.0.0 || ^2.0.0", "^1.0.0.0"}

Specifiers ==
  ExactVersions \cup {pre \o v : pre \in {"^", "~", ">="}, v \in ExactVersions}
  \cup OtherSpecifiers

Names == {"lodash", "react"}

\* Objects with keys among ks and values among vs.
Objects(ks, vs) == UNION {[d -> vs] : d \in SUBSET ks}

\* The sequences over S of length at most n.
SeqsUpTo(S, n) == UNION {[1..k -> S] : k \in 0..n}

\* package.json of the project: unreadable (or missing), or with its two sections.
PackageJsonFiles ==
  {[readable |-> FALSE, json |-> [k \in {} |-> EmptyObj]]}
  \cup {[readable |-> TRUE, json |-> j] :
          j \in {[dependencies |-> d, devDependencies |-> e] :
                   d \in Objects(Names, {"^4.5.0"}), e \in Objects({"lodash"}, {"^3.0.0"})}
                \cup {[k \in {} |-> EmptyObj]}}

\* node_modules/*/package.json: unreadable, or with a name and a version.
NodeModuleFiles ==
  {[readable |-> FALSE, json |-> EmptyObj],
   [readable |-> TRUE, json |-> [name |-> "lodash", version |-> "4.17.21"]],
   [readable |-> TRUE, json |-> [name |-> "lodash", version |-> "3.10.1"]],
   [readable |-> TRUE, json |-> [name |-> "react", version |-> "4.17.21"]]}

\* A component's packageDependencies: absent, or its (name, version) pairs
\* in key order.
Components ==
  {[hasPackageDependencies |-> FALSE, packageDependencies |-> <<>>]}
  \cup {[hasPackageDependencies |-> TRUE, packageDependencies |-> d] :
          d \in {<<>>, <<<<"lodash", "^4.1.0">>>>, <<<<"react", "^4.1.0">>>>,
                 <<<<"lodash", "^4.1.0">>, <<"react", "^4.1.0">>>>}}

\* ------------------------------------------------------------------------
\* State
\* ------------------------------------------------------------------------

VARIABLES
  pc,                       \* where warnForPackageDependencies / the call is
  packageJsonFile,          \* <projectDir>/package.json
  nodeModulesDirs,          \* glob.sync(<projectDir>/node_modules/*), in order
  dependencies,             \* the imported components
  packageJsonDependencies,  \* the manifest source
  nodeModules,              \* the installed source
  warnings,                 \* the three buckets
  i,                        \* index of the component dependencies.forEach is at
  j,                        \* index of the pair forEachObjIndexed is at
  a,                        \* compatibleWith's first argument
  b,                        \* compatibleWith's second argument
  ret                       \* what the call of compatibleWith did

vars == <<pc, packageJsonFile, nodeModulesDirs, dependencies, packageJsonDependencies,
          nodeModules, warnings, i, j, a, b, ret>>

callVars == <<a, b, ret>>

warnVars == <<packageJsonFile, nodeModulesDirs, dependencies, packageJsonDependencies,
              nodeModules, warnings, i, j>>

\* ------------------------------------------------------------------------
\* warnForPackageDependencies
\* ------------------------------------------------------------------------

Init ==
  /\ pc = "start"
  /\ packageJsonFile \in PackageJsonFiles
  /\ nodeModulesDirs \in SeqsUpTo(NodeModuleFiles, MaxNodeModules)
  /\ dependencies \in SeqsUpTo(Components, MaxComponents)
  /\ packageJsonDependencies = EmptyObj
  /\ nodeModules = EmptyObj
  /\ warnings = EmptyWarnings
  /\ i = 1
  /\ j = 1
  /\ a = EmptyObj
  /\ b = EmptyObj
  /\ ret = Returns(FALSE)

\* Lines 102-123: the empty buckets and the two sources.
LoadSources ==
  /\ pc = "start"
  /\ IF \/ getPackageJson(packageJsonFile).threw
        \/ \E n \in 1..Len(nodeModulesDirs) : getPackageJson(nodeModulesDirs[n]).threw
     THEN /\ pc' = "raised"
          /\ UNCHANGED <<packageJsonDependencies, nodeModules>>
     ELSE /\ pc' = "forEach"
          /\ packageJsonDependencies' =
               buildPackageJsonDependencies(getPackageJson(packageJsonFile).json)
          /\ nodeModules' = buildNodeModules(nodeModulesDirs)
  /\ UNCHANGED <<packageJsonFile, nodeModulesDirs, dependencies, warnings, i, j>>
  /\ UNCHANGED callVars

\* Line 126: a component without package dependencies.
SkipComponent ==
  /\ pc = "forEach"
  /\ i <= Len(dependencies)
  /\ hasNoPackageDependencies(dependencies[i])
  /\ i' = AfterSkip(i, Len(dependencies))
  /\ j' = 1
  /\ UNCHANGED <<pc, packageJsonFile, nodeModulesDirs, dependencies,
                 packageJsonDependencies, nodeModules, warnings>>
  /\ UNCHANGED callVars

\* Lines 130-144 for one pair: the two answers of compatibleWith, then the
\* pushes; a throw leaves the function.
Classify(packageDep, inPackageJson, inNodeModules, last) ==
  IF inPackageJson.threw \/ inNodeModules.threw
  THEN /\ pc' = "raised"
       /\ UNCHANGED <<warnings, i, j>>
  ELSE /\ pc' = pc
       /\ warnings' = [n \in BucketNames |->
                         IF n \in Buckets(inPackageJson.value, inNodeModules.value)
                         THEN push(warnings[n], packageDep)
                         ELSE warnings[n]]
       /\ IF last THEN i' = i + 1 /\ j' = 1 ELSE i' = i /\ j' = j + 1

\* Lines 128-145: one call of the forEachObjIndexed callback.
EvaluateDep ==
  /\ pc = "forEach"
  /\ i <= Len(dependencies)
  /\ ~hasNoPackageDependencies(dependencies[i])
  /\ Classify(PackageDep(dependencies[i].packageDependencies[j][1],
                         dependencies[i].packageDependencies[j][2]),
              compatibleWith(PackageDep(dependencies[i].packageDependencies[j][1],
                                        dependencies[i].packageDependencies[j][2]),
                             packageJsonDependencies),
              compatibleWith(PackageDep(dependencies[i].packageDependencies[j][1],
                                        dependencies[i].packageDependencies[j][2]),
                             nodeModules),
              j >= Len(dependencies[i].packageDependencies))
  /\ UNCHANGED <<packageJsonFile, nodeModulesDirs, dependencies,
                 packageJsonDependencies, nodeModules>>
  /\ UNCHANGED callVars

\* Line 148: Promise.resolve(warnings).
Resolve ==
  /\ pc = "forEach"
  /\ i > Len(dependencies)
  /\ pc' = "done"
  /\ UNCHANGED warnVars
  /\ UNCHANGED callVars

Next == LoadSources \/ SkipComponent \/ EvaluateDep \/ Resolve

Spec == Init /\ [][Next]_vars

\* ------------------------------------------------------------------------
\* compatibleWith, called on its own
\* ------------------------------------------------------------------------

Sources ==
  {EmptyObj}
  \cup {PackageDep("lodash", s) : s \in Specifiers}
  \cup {PackageDep("react", s) : s \in OtherSpecifiers}
  \cup {[k \in Names |-> "1.0.0"]}

InitCall ==
  /\ pc = "call"
  /\ a \in {PackageDep("lodash", s) : s \in Specifiers}
  /\ b \in Sources
  /\ ret = Returns(FALSE)
  /\ packageJsonFile = [readable |-> FALSE, json |-> [k \in {} |-> EmptyObj]]
  /\ nodeModulesDirs = <<>>
  /\ dependencies = <<>>
  /\ packageJsonDependencies = EmptyObj
  /\ nodeModules = EmptyObj
  /\ warnings = EmptyWarnings
  /\ i = 1
  /\ j = 1

\* Lines 80-99.
CallCompatibleWith ==
  /\ pc = "call"
  /\ ret' = compatibleWith(a, b)
  /\ pc' = "returned"
  /\ UNCHANGED <<a, b>>
  /\ UNCHANGED warnVars

NextCall == CallCompatibleWith

SpecCall == InitCall /\ [][NextCall]_vars


\* ------------------------------------------------------------------------
\* Vocabulary of the properties
\* ------------------------------------------------------------------------

\* The classification, read off semver directly.
IsExact(s) == semver_valid(s)
IsRange(s) == ~semver_valid(s) /\ semver_validRange(s)
IsInvalid(s) == ~semver_valid(s) /\ ~semver_validRange(s)

Returned == pc = "returned"
depNameOfCall == key(a)
aVersionOfCall == a[depNameOfCall]
HasEntry == depNameOfCall \in DOMAIN b
bVersionOfCall == Get(b, depNameOfCall)

\* The (name, version) pairs of a component, as the objects that are pushed.
PairsOf(dep) ==
  [n \in 1..Len(dep.packageDependencies) |->
     PackageDep(dep.packageDependencies[n][1], dep.packageDependencies[n][2])]

RECURSIVE Flatten(_)
\* The pairs of a sequence of components, in evaluation order.
Flatten(deps) ==
  IF Len(deps) = 0 THEN <<>>
  ELSE Flatten(SubSeq(deps, 1, Len(deps) - 1)) \o PairsOf(deps[Len(deps)])

\* The pairs evaluated so far.
Evaluated ==
  IF pc = "start" THEN <<>>
  ELSE IF i > Len(dependencies) THEN Flatten(dependencies)
  ELSE Flatten(SubSeq(dependencies, 1, i - 1)) \o SubSeq(PairsOf(dependencies[i]), 1, j - 1)

RECURSIVE IsSubseq(_, _)
\* s is t with some elements left out, the order kept.
IsSubseq(s, t) ==
  IF Len(s) = 0 THEN TRUE
  ELSE IF Len(t) = 0 THEN FALSE
  ELSE IF s[1] = t[1] THEN IsSubseq(Tail(s), Tail(t))
  ELSE IsSubseq(s, Tail(t))

inManifest(pair) == compatibleWith(pair, packageJsonDependencies).value
inInstalled(pair) == compatibleWith(pair, nodeModules).value

\* A source that holds no version for any package.
HoldsNothing(source) == \A k \in DOMAIN source : source[k] = undefined

\* ------------------------------------------------------------------------
\* Properties
\* ------------------------------------------------------------------------

\* What one evaluation of pair does to the buckets, m and n being its
\* compatibility with the manifest source and with the installed source.
OneEvaluation(pair, m, n) ==
  /\ warnings'.notInBoth =
       IF ~m /\ ~n THEN Append(warnings.notInBoth, pair) ELSE warnings.notInBoth
  /\ warnings'.notInPackageJson =
       IF ~m /\ n THEN Append(warnings.notInPackageJson, pair)
       ELSE warnings.notInPackageJson
  /\ warnings'.notInNodeModules =
       IF m /\ ~n THEN Append(warnings.notInNodeModules, pair)
       ELSE warnings.notInNodeModules
  /\ Len(warnings'.notInBoth) + Len(warnings'.notInPackageJson)
       + Len(warnings'.notInNodeModules)
     <= Len(warnings.notInBoth) + Len(warnings.notInPackageJson)
       + Len(warnings.notInNodeModules) + 1

\* C1: one evaluation of a pair appends it to notInBoth iff it is compatible
\* with neither source, to notInPackageJson iff only with the installed
\* source, to notInNodeModules iff only with the manifest source, and to no
\* bucket iff with both; so the three buckets grow by at most one entry in all.
C1_BucketOfOneEvaluation ==
  [][(pc = "forEach" /\ i <= Len(dependencies)
        /\ ~hasNoPackageDependencies(dependencies[i]))
     => OneEvaluation(PairsOf(dependencies[i])[j],
                      inManifest(PairsOf(dependencies[i])[j]),
                      inInstalled(PairsOf(dependencies[i])[j]))]_vars

C1_Witness ==
  /\ pc = "done"
  /\ Len(warnings.notInPackageJson) > 0
  /\ Len(warnings.notInNodeModules) > 0

\* C2: a call whose source has no entry for the dependency's name returns
\* false, whatever the declared specifier.
C2_FalseWithoutEntry == (Returned /\ ~HasEntry) => ret = Returns(FALSE)

C2_Witness ==
  /\ Returned
  /\ DOMAIN b = {"react"}
  /\ IsExact(aVersionOfCall)
  /\ ret = Returns(FALSE)

\* C3: a call in which the declared specifier or the source's specifier is
\* neither an exact version nor a range returns false and does not throw.
C3_FalseOnInvalid ==
  (Returned /\ (IsInvalid(aVersionOfCall) \/ (HasEntry /\ IsInvalid(bVersionOfCall))))
    => ret = Returns(FALSE)

C3_Witness ==
  /\ Returned
  /\ aVersionOfCall = "^1.0.0.0"
  /\ bVersionOfCall = "^1.0.0"
  /\ ret = Returns(FALSE)

\* C4: when both specifiers are ranges the call returns true exactly when both
\* begin with a caret and the character after the caret is the same digit in
\* both.
C4_RangeRange ==
  (Returned /\ IsRange(aVersionOfCall) /\ HasEntry /\ IsRange(bVersionOfCall))
    => ret = Returns(/\ CharAt(aVersionOfCall, 0) = "^"
                     /\ CharAt(bVersionOfCall, 0) = "^"
                     /\ IsDigit(CharAt(aVersionOfCall, 1))
                     /\ CharAt(aVersionOfCall, 1) = CharAt(bVersionOfCall, 1))

C4_Witness ==
  /\ Returned
  /\ aVersionOfCall = ">=1.0.0 <2.0.0"
  /\ bVersionOfCall = "1.5.0 - 1.9.0"
  /\ ret = Returns(FALSE)

\* C5 (as claimed): with an exact version on one side and a range on the
\* other, the call returns "the exact version satisfies the range", whichever
\* side carries which.
C5_ExactAgainstRange ==
  /\ (Returned /\ HasEntry /\ IsExact(aVersionOfCall) /\ IsRange(bVersionOfCall))
       => ret = semver_satisfies(aVersionOfCall, bVersionOfCall)
  /\ (Returned /\ HasEntry /\ IsRange(aVersionOfCall) /\ IsExact(bVersionOfCall))
       => ret = semver_satisfies(bVersionOfCall, aVersionOfCall)

\* C6: each bucket holds pairs in the order of their evaluation: it is the
\* sequence of the pairs evaluated so far with some of them left out.
C6_BucketsInEvaluationOrder ==
  \A n \in BucketNames : IsSubseq(warnings[n], Evaluated)

C6_Witness ==
  /\ pc = "done"
  /\ Len(dependencies) = 2
  /\ Len(warnings.notInBoth) = 2
  /\ warnings.notInBoth[1] = PairsOf(dependencies[1])[1]
  /\ warnings.notInBoth[2] = PairsOf(dependencies[2])[1]
  /\ warnings.notInBoth[1] # warnings.notInBoth[2]

\* C7 (as claimed): the empty specifier classifies as invalid, so that a call
\* that declares it returns false for every source.
C7_EmptyIsInvalid == (Returned /\ aVersionOfCall = "") => ret = Returns(FALSE)

\* C7 (amended): the empty specifier classifies as a range (semver reads it
\* as "*"), and a call that declares it returns true exactly when the source
\* holds an exact version for the name.
C7_EmptyIsWildcard ==
  (Returned /\ aVersionOfCall = "")
    => (getSemverType(aVersionOfCall) = "R"
        /\ ret = Returns(HasEntry /\ IsExact(bVersionOfCall)))

C7_Witness ==
  /\ Returned
  /\ aVersionOfCall = ""
  /\ bVersionOfCall = "1.0.0"
  /\ ret = Returns(TRUE)

Added(before, pair, m, n) ==
  [notInBoth |-> IF ~m /\ ~n THEN Append(before.notInBoth, pair) ELSE before.notInBoth,
   notInPackageJson |-> IF ~m /\ n THEN Append(before.notInPackageJson, pair)
                        ELSE before.notInPackageJson,
   notInNodeModules |-> IF m /\ ~n THEN Append(before.notInNodeModules, pair)
                        ELSE before.notInNodeModules]

RECURSIVE ReportOf(_)
\* The report of a sequence of pairs against the two sources.
ReportOf(pairs) ==
  IF Len(pairs) = 0 THEN EmptyWarnings
  ELSE Added(ReportOf(SubSeq(pairs, 1, Len(pairs) - 1)), pairs[Len(pairs)],
             inManifest(pairs[Len(pairs)]), inInstalled(pairs[Len(pairs)]))

\* C9: the returned report is the report of the components that declare at
\* least one package dependency: a component with an empty or absent set,
\* wherever it stands, adds nothing and changes nothing of the others.
C9_EmptyComponentIsNoOp ==
  pc = "done"
    => warnings = ReportOf(Flatten(SelectSeq(dependencies,
                                             LAMBDA d : ~hasNoPackageDependencies(d))))

C9_Witness ==
  /\ pc = "done"
  /\ Len(dependencies) = 2
  /\ hasNoPackageDependencies(dependencies[1])
  /\ ~hasNoPackageDependencies(dependencies[2])
  /\ Len(warnings.notInBoth) > 0

\* C10: between two caret ranges only the character at index 1 counts: the
\* same digit there gives true even when the majors differ, and a caret range
\* with no digit there is compatible with no range.
C10_OnlyTheFirstDigit ==
  (Returned /\ HasEntry /\ IsRange(aVersionOfCall) /\ IsRange(bVersionOfCall))
    => /\ (/\ startsWith(aVersionOfCall, "^") /\ startsWith(bVersionOfCall, "^")
           /\ IsDigit(CharAt(aVersionOfCall, 1))
           /\ CharAt(aVersionOfCall, 1) = CharAt(bVersionOfCall, 1))
          => ret = Returns(TRUE)
       /\ (\/ startsWith(aVersionOfCall, "^") /\ ~IsDigit(CharAt(aVersionOfCall, 1))
           \/ startsWith(bVersionOfCall, "^") /\ ~IsDigit(CharAt(bVersionOfCall, 1)))
          => ret = Returns(FALSE)

C10_Witness ==
  /\ Returned
  /\ aVersionOfCall = "^10.0.0"
  /\ bVersionOfCall = "^12.0.0"
  /\ ret = Returns(TRUE)

====
